---- MODULE Spec2Model ----
(***************************************************************************)
(* A model of the audio fingerprinting pipeline: the hasher                *)
(* (shazam/fingerprint.py), the SQLite index store (shazam/database.py)    *)
(* and the matcher (shazam/matcher.py).                                    *)
(*                                                                         *)
(* A peak is <<t, f>>, a hash record is <<hash, t_anchor, song_id>>, a     *)
(* fingerprint row is <<hash, song_id, time_offset>>, a song row is        *)
(* <<id, name>> and a probe hit is <<song_id, db_offset, query_offset>>,   *)
(* as the tuples of the source.                                            *)
(***************************************************************************)
EXTENDS Integers, Sequences, FiniteSets, TLC

VARIABLES
    peaks,      \* the peak list handed to generate_hashes
    peaks2,     \* a rearrangement of the same peaks, handed to a second call
    hashes,     \* what generate_hashes(peaks) returned
    hashes2,    \* what generate_hashes(peaks2) returned
    hpc,        \* which of the two calls have returned
    db,         \* the committed database: songs, fingerprints, sqlite_sequence
    inserted,   \* history: one record per insert_song call that returned
    call,       \* the last call that returned: its arguments and its result
    pc,         \* per caller: where its insert_song call stands
    local,      \* per caller: the arguments and locals of that call
    conn,       \* per caller: the database as its open transaction has it
    lock,       \* the caller holding SQLite's write lock, or "free"
    ncalls,     \* history: insert_song calls started so far
    origin,     \* history: the call that wrote each committed row
    rolled_back \* history: the calls whose transaction was rolled back

hvars == <<peaks, peaks2, hashes, hashes2, hpc>>
svars == <<db, inserted, call>>
cvars == <<pc, local, conn, lock, ncalls, origin, rolled_back>>
vars == <<hvars, svars, cvars>>

None == "None"                   \* Python's None, where a string may stand
NoMatch == [matched |-> FALSE]   \* the None find_matches returns
NoCall == [op |-> "none"]        \* no call has returned yet

(***************************************************************************)
(* Program constants.                                                      *)
(***************************************************************************)
TARGET_ZONE_START == 1
TARGET_ZONE_END == 200
FAN_OUT == 15
MIN_MATCHES == 5

(***************************************************************************)
(* Bounds of the model.                                                    *)
(***************************************************************************)
MaxPeaks == 3       \* length of the exhaustively enumerated peak lists
MaxFreq == 1        \* frequency bins 0..MaxFreq of those lists
MaxExtra == 1       \* a reference holds up to MIN_MATCHES + MaxExtra hashes
MaxShift == 1       \* a query is shifted by -MaxShift..MaxShift frames
MaxHashes == 2      \* hashes per song of the two-song catalog
MaxQuery == 3       \* hashes per query against that catalog
MaxCalls == 2       \* insert_song calls started on the shared store
MaxRows == 2        \* hashes per call on the shared store

(***************************************************************************)
(* Sequence helpers.                                                       *)
(***************************************************************************)
RECURSIVE SeqsUpTo(_, _)
SeqsUpTo(S, n) ==
    IF n = 0 THEN {<<>>}
    ELSE LET shorter == SeqsUpTo(S, n - 1)
         IN  shorter \cup {Append(s, x) : s \in {q \in shorter : Len(q) = n - 1}, x \in S}

Reverse(s) == [i \in 1..Len(s) |-> s[Len(s) + 1 - i]]

Range(s) == {s[i] : i \in 1..Len(s)}

Occurrences(s, x) == Cardinality({i \in 1..Len(s) : s[i] = x})

\* a and b hold the same elements, each as many times
IsPermutationOf(a, b) ==
    /\ Len(a) = Len(b)
    /\ \A x \in Range(a) \cup Range(b) : Occurrences(a, x) = Occurrences(b, x)

IndexPermutations(n) ==
    {p \in [1..n -> 1..n] : \A i, j \in 1..n : i # j => p[i] # p[j]}

IsDistinct(s) == \A i, j \in 1..Len(s) : i # j => s[i] # s[j]

(***************************************************************************)
(* shazam/fingerprint.py                                                   *)
(***************************************************************************)

\* hashlib.sha1(f"{f1}|{f2}|{delta_t}".encode()).hexdigest()[:20]: a token
\* that is a function of (f1, f2, delta_t) alone.  The 80-bit digest is
\* kept as the triple it digests (no two triples of the model collide).
HashValue(f1, f2, delta_t) == <<f1, f2, delta_t>>

\* sorted(..., key=lambda x: x[0]) is stable: a peak goes after every peak
\* already placed whose time is not larger.
RECURSIVE InsertByTime(_, _)
InsertByTime(s, p) ==
    IF s = <<>> THEN <<p>>
    ELSE IF s[Len(s)][1] <= p[1] THEN Append(s, p)
    ELSE Append(InsertByTime(SubSeq(s, 1, Len(s) - 1), p), s[Len(s)])

RECURSIVE SortedByTime(_)
SortedByTime(ps) ==
    IF ps = <<>> THEN <<>>
    ELSE InsertByTime(SortedByTime(SubSeq(ps, 1, Len(ps) - 1)), ps[Len(ps)])

FanOutReachedLate(targets) == Len(targets) > FAN_OUT

\* if len(targets) >= FAN_OUT: break
FanOutReached(targets) == Len(targets) >= FAN_OUT

\* The inner loop of generate_hashes: for j in range(i + 1, len(peaks)).
RECURSIVE ScanTargets(_, _, _, _)
ScanTargets(sorted, t1, j, targets) ==
    IF j > Len(sorted) THEN targets
    ELSE LET t2 == sorted[j][1]
             f2 == sorted[j][2]
             delta_t == t2 - t1
         IN  IF delta_t < TARGET_ZONE_START
               THEN ScanTargets(sorted, t1, j + 1, targets)          \* continue
             ELSE IF delta_t > TARGET_ZONE_END
               THEN targets                                          \* break
             ELSE LET more == Append(targets, <<t2, f2, delta_t>>)
                  IN  IF FanOutReached(more)
                        THEN more                                    \* break
                        ELSE ScanTargets(sorted, t1, j + 1, more)

\* The hashes of one anchor, one per target in the order the targets were found.
AnchorHashes(sorted, i, song_id) ==
    LET t1 == sorted[i][1]
        f1 == sorted[i][2]
        targets == ScanTargets(sorted, t1, i + 1, <<>>)
    IN  [k \in 1..Len(targets) |->
            <<HashValue(f1, targets[k][2], targets[k][3]), t1, song_id>>]

\* The outer loop: for i, (t1, f1) in enumerate(peaks).
RECURSIVE HashesFrom(_, _, _)
HashesFrom(sorted, i, song_id) ==
    IF i > Len(sorted) THEN <<>>
    ELSE AnchorHashes(sorted, i, song_id) \o HashesFrom(sorted, i + 1, song_id)

generate_hashes(ps, song_id) == HashesFrom(SortedByTime(ps), 1, song_id)

(***************************************************************************)
(* shazam/database.py                                                      *)
(***************************************************************************)

\* The database _init_db leaves behind: both tables empty, no row of
\* sqlite_sequence yet (AUTOINCREMENT's high-water mark, 0).
EmptyDb == [songs |-> <<>>, fingerprints |-> <<>>, sqlite_sequence |-> 0]

SongIds(d) == {d.songs[i][1] : i \in 1..Len(d.songs)}

MaxOf(S) == IF S = {} THEN 0 ELSE CHOOSE x \in S : \A y \in S : y <= x

\* id INTEGER PRIMARY KEY AUTOINCREMENT: one more than the largest id the
\* table ever held, which sqlite_sequence remembers.
NextRowId(d) == MaxOf(SongIds(d) \cup {d.sqlite_sequence}) + 1

\* conn.execute("INSERT INTO songs (name) VALUES (?)", (name,))
InsertSongRow(d, name) ==
    [d EXCEPT !.songs = Append(@, <<NextRowId(d), name>>),
              !.sqlite_sequence = NextRowId(d)]

\* cursor.lastrowid after that INSERT
LastRowId(d) == d.sqlite_sequence

FingerprintDataSwapped(hs, song_id) ==
    [i \in 1..Len(hs) |-> <<hs[i][1], hs[i][2], song_id>>]

\* fingerprint_data = [(h, song_id, t) for h, t, _ in hashes]
FingerprintData(hs, song_id) ==
    [i \in 1..Len(hs) |-> <<hs[i][1], song_id, hs[i][2]>>]

\* one row of the executemany: INSERT INTO fingerprints (hash, song_id, time_offset)
InsertFingerprintRow(d, row) == [d EXCEPT !.fingerprints = Append(@, row)]

RECURSIVE ExecuteMany(_, _)
ExecuteMany(d, rows) ==
    IF rows = <<>> THEN d
    ELSE ExecuteMany(InsertFingerprintRow(d, Head(rows)), Tail(rows))

\* insert_song run to its return with no other connection writing: the
\* database it commits.
InsertSongDb(d, name, hs) ==
    LET withSong == InsertSongRow(d, name)
    IN  ExecuteMany(withSong, FingerprintData(hs, LastRowId(withSong)))

SelectByHashFirstOnly(d, hash_val) ==
    LET rows == SelectSeq(d.fingerprints, LAMBDA r : r[1] = hash_val)
    IN  IF rows = <<>> THEN <<>> ELSE <<<<rows[1][2], rows[1][3]>>>>

\* SELECT song_id, time_offset FROM fingerprints WHERE hash = ?  (fetchall)
SelectByHash(d, hash_val) ==
    LET rows == SelectSeq(d.fingerprints, LAMBDA r : r[1] = hash_val)
    IN  [i \in 1..Len(rows) |-> <<rows[i][2], rows[i][3]>>]

\* What one pass of query's loop appends: a (song_id, db_offset,
\* query_offset) per row fetched for this hash.
QueryOne(d, h) ==
    LET found == SelectByHash(d, h[1])
    IN  [i \in 1..Len(found) |-> <<found[i][1], found[i][2], h[2]>>]

\* query: for hash_val, query_offset, _ in hashes
RECURSIVE query(_, _)
query(d, hs) ==
    IF hs = <<>> THEN <<>> ELSE QueryOne(d, Head(hs)) \o query(d, Tail(hs))

\* get_song: SELECT name FROM songs WHERE id = ?  (fetchone)
get_song(d, song_id) ==
    LET rows == SelectSeq(d.songs, LAMBDA r : r[1] = song_id)
    IN  IF rows = <<>> THEN None ELSE rows[1][2]

\* list_songs: SELECT id, name FROM songs ORDER BY id
RECURSIVE OrderById(_)
OrderById(rows) ==
    IF rows = <<>> THEN <<>>
    ELSE LET least == CHOOSE i \in 1..Len(rows) :
                          \A j \in 1..Len(rows) : rows[i][1] <= rows[j][1]
         IN  <<rows[least]>> \o
             OrderById(SubSeq(rows, 1, least - 1) \o SubSeq(rows, least + 1, Len(rows)))

list_songs(d) == OrderById(d.songs)

\* song_count: SELECT COUNT(*) FROM songs
song_count(d) == Len(d.songs)

\* fingerprint_count: SELECT COUNT(*) FROM fingerprints
fingerprint_count(d) == Len(d.fingerprints)

(***************************************************************************)
(* shazam/matcher.py                                                       *)
(***************************************************************************)

\* alignment_counts[(song_id, time_diff)] += 1 on a defaultdict(int).  The
\* dict is kept as the sequence of its <<key, count>> items in insertion
\* order, the order max() walks it in.
Increment(counts, key) ==
    IF \E i \in 1..Len(counts) : counts[i][1] = key
      THEN LET at == CHOOSE i \in 1..Len(counts) : counts[i][1] = key
           IN  SubSeq(counts, 1, at - 1) \o <<<<key, counts[at][2] + 1>>>>
                   \o SubSeq(counts, at + 1, Len(counts))
      ELSE Append(counts, <<key, 1>>)

TimeDiffSum(db_offset, query_offset) == db_offset + query_offset

\* time_diff = db_offset - query_offset
TimeDiff(db_offset, query_offset) == db_offset - query_offset

\* for song_id, db_offset, query_offset in matches: the dict after the
\* first n matches
RECURSIVE AlignmentCounts(_, _)
AlignmentCounts(matches, n) ==
    IF n = 0 THEN <<>>
    ELSE Increment(AlignmentCounts(matches, n - 1),
                   <<matches[n][1], TimeDiff(matches[n][2], matches[n][3])>>)

\* max(alignment_counts, key=alignment_counts.get): the first item, in
\* insertion order, that no item beats (among the first n items).
RECURSIVE MaxItem(_, _)
MaxItem(counts, n) ==
    IF n = 1 THEN counts[1]
    ELSE LET best == MaxItem(counts, n - 1)
         IN  IF counts[n][2] > best[2] THEN counts[n] ELSE best

\* if best_count < MIN_MATCHES: return None
BelowThreshold(best_count) == best_count < MIN_MATCHES

\* MatchResult(song_id, song_name, confidence, aligned_matches) is the
\* record of those fields (and matched = TRUE, which NoMatch lacks).

\* best_count / len(query_hashes), kept as the exact fraction
Confidence(best_count, n) == [num |-> best_count, den |-> n]

find_matches(query_hashes, d) ==
    IF query_hashes = <<>> THEN NoMatch
    ELSE LET matches == query(d, query_hashes)
         IN  IF matches = <<>> THEN NoMatch
             ELSE LET alignment_counts == AlignmentCounts(matches, Len(matches))
                      best == MaxItem(alignment_counts, Len(alignment_counts))
                      best_key == best[1]
                      best_count == best[2]
                      best_song_id == best_key[1]
                  IN  IF BelowThreshold(best_count) THEN NoMatch
                      ELSE [matched |-> TRUE,
                            song_id |-> best_song_id,
                            song_name |-> get_song(d, best_song_id),
                            confidence |-> Confidence(best_count, Len(query_hashes)),
                            aligned_matches |-> best_count]

(***************************************************************************)
(* The hasher's inputs.  Exhaustively: every peak list of at most MaxPeaks *)
(* peaks over the times 0, 1, 201 (time differences 0, 1, 200, 201) and    *)
(* the frequencies 0..MaxFreq.  And dense runs long enough for FAN_OUT to  *)
(* cut: n peaks (n around FAN_OUT and around twice FAN_OUT), `group` of    *)
(* them per time frame, the frames `stride` apart, in ascending or         *)
(* descending order.                                                       *)
(***************************************************************************)
Times == {0, TARGET_ZONE_START, TARGET_ZONE_END + 1}
Freqs == 0..MaxFreq
SmallPeakLists == SeqsUpTo(Times \X Freqs, MaxPeaks)

DenseLengths == {FAN_OUT, FAN_OUT + 1, FAN_OUT + 2, 2 * FAN_OUT + 3}
Strides == {0, 1, 13, 14, TARGET_ZONE_END, TARGET_ZONE_END + 1}
Groups == {1, 2, FAN_OUT + 1}
DenseRun(n, stride, group) ==
    [i \in 1..n |-> <<((i - 1) \div group) * stride, (i - 1) % (FAN_OUT + 2)>>]
DensePeakLists ==
    LET runs == {DenseRun(n, s, g) : n \in DenseLengths, s \in Strides, g \in Groups}
    IN  runs \cup {Reverse(r) : r \in runs}

PeakInputs == SmallPeakLists \cup DensePeakLists

\* The orders the same peaks may arrive in: every permutation of a short
\* list, the list and its reverse for a dense run.
Rearrangements(ps) ==
    IF Len(ps) <= MaxPeaks
      THEN {[i \in 1..Len(ps) |-> ps[p[i]]] : p \in IndexPermutations(Len(ps))}
      ELSE {ps, Reverse(ps)}

\* The store, in a run of the hasher alone.
Callers == {"c1", "c2"}
NoLocals == [name |-> None, hashes |-> <<>>, song_id |-> 0,
             fingerprint_data |-> <<>>, done |-> 0, no |-> 0]
NoOrigin == [songs |-> <<>>, fingerprints |-> <<>>]
NoTransaction == [db |-> EmptyDb, origin |-> NoOrigin]

\* Every caller before its first call; no transaction open.
CallersIdle ==
    /\ pc = [p \in Callers |-> "idle"]
    /\ local = [p \in Callers |-> NoLocals]
    /\ conn = [p \in Callers |-> NoTransaction]
    /\ lock = "free"
    /\ ncalls = 0
    /\ origin = NoOrigin
    /\ rolled_back = {}

StoreUnused == db = EmptyDb /\ inserted = <<>> /\ call = NoCall /\ CallersIdle

\* The hasher, in a run of the store and the matcher alone.
HasherUnused ==
    peaks = <<>> /\ peaks2 = <<>> /\ hashes = <<>> /\ hashes2 = <<>> /\ hpc = "start"

InitHash ==
    /\ peaks \in PeakInputs
    /\ peaks2 \in Rearrangements(peaks)
    /\ hashes = <<>>
    /\ hashes2 = <<>>
    /\ hpc = "start"
    /\ StoreUnused

\* hashes = generate_hashes(peaks), as Shazam.fingerprint calls it
GenerateHashes ==
    /\ hpc = "start"
    /\ hashes' = generate_hashes(peaks, None)
    /\ hpc' = "first"
    /\ UNCHANGED <<peaks, peaks2, hashes2, svars, cvars>>

\* the same call on the rearranged list
GenerateHashesAgain ==
    /\ hpc = "first"
    /\ hashes2' = generate_hashes(peaks2, None)
    /\ hpc' = "done"
    /\ UNCHANGED <<peaks, peaks2, hashes, svars, cvars>>

NextHash == GenerateHashes \/ GenerateHashesAgain

SpecHash == InitHash /\ [][NextHash]_vars

(***************************************************************************)
(* Properties of generate_hashes.                                          *)
(***************************************************************************)

\* The later peaks of the time-ordered list s inside anchor i's target zone.
ZoneTargets(s, i) ==
    {j \in (i + 1)..Len(s) :
        s[j][1] - s[i][1] \in TARGET_ZONE_START..TARGET_ZONE_END}

\* The first min(FAN_OUT, k) of them.
FirstInZone(s, i) ==
    LET z == ZoneTargets(s, i)
    IN  {j \in z : Cardinality({m \in z : m < j}) < FAN_OUT}

\* One record per such target, in the order of the list.
ExpectedOfAnchor(s, i) ==
    LET c == FirstInZone(s, i)
    IN  [k \in 1..Cardinality(c) |->
            LET j == CHOOSE j \in c : Cardinality({m \in c : m < j}) = k - 1
            IN  <<HashValue(s[i][2], s[j][2], s[j][1] - s[i][1]), s[i][1], None>>]

RECURSIVE ExpectedFrom(_, _)
ExpectedFrom(s, i) ==
    IF i > Len(s) THEN <<>> ELSE ExpectedOfAnchor(s, i) \o ExpectedFrom(s, i + 1)

\* C6: taking the peaks in ascending-t order, the hashes of each anchor are
\* exactly one per target among the first min(FAN_OUT, k) later peaks with
\* 1 <= dt <= 200, in ascending dt, each carrying the anchor's time; so
\* every hash comes from two peaks of P with 1 <= t2 - t1 <= 200, there are
\* at most FAN_OUT * |P| hashes, and one peak, or two peaks 0 or 201 frames
\* apart, give none.
C6_TargetZoneFanOut ==
    hpc # "start" =>
        LET s == SortedByTime(peaks)
        IN  /\ IsPermutationOf(s, peaks)
            /\ \A i \in 1..(Len(s) - 1) : s[i][1] <= s[i + 1][1]
            /\ hashes = ExpectedFrom(s, 1)
            /\ \A i \in 1..Len(s) : \A j, m \in FirstInZone(s, i) :
                    j < m => s[j][1] - s[i][1] <= s[m][1] - s[i][1]
            /\ \A k \in 1..Len(hashes) :
                    \E a \in 1..Len(peaks) : \E b \in 1..Len(peaks) :
                        /\ peaks[a][1] = hashes[k][2]
                        /\ peaks[b][1] - peaks[a][1]
                               \in TARGET_ZONE_START..TARGET_ZONE_END
                        /\ hashes[k] = <<HashValue(peaks[a][2], peaks[b][2],
                                                   peaks[b][1] - peaks[a][1]),
                                         peaks[a][1], None>>
            /\ Len(hashes) <= FAN_OUT * Len(peaks)
            /\ Len(peaks) = 1 => hashes = <<>>
            /\ (Len(peaks) = 2 /\ peaks[1][1] = peaks[2][1]) => hashes = <<>>
            /\ (Len(peaks) = 2 /\ peaks[2][1] - peaks[1][1] = TARGET_ZONE_END + 1)
                   => hashes = <<>>

\* An unsorted list in which an anchor has more than FAN_OUT peaks in its
\* zone (so the fan-out limit cuts) and another has fewer (so the zone does).
C6_Witness ==
    /\ hpc = "done"
    /\ peaks # SortedByTime(peaks)
    /\ \E i \in 1..Len(peaks) :
          Cardinality(ZoneTargets(SortedByTime(peaks), i)) > FAN_OUT
    /\ \E i \in 1..Len(peaks) :
          /\ Cardinality(ZoneTargets(SortedByTime(peaks), i)) \in 1..(FAN_OUT - 1)
          /\ i + Cardinality(ZoneTargets(SortedByTime(peaks), i)) < Len(peaks)

\* C7: for a list P of distinct peaks and any permutation P' of it,
\* generate_hashes(P') returns the same list of records as generate_hashes(P).
C7_PermutationInvariant ==
    (hpc = "done" /\ IsDistinct(peaks) /\ IsPermutationOf(peaks2, peaks))
        => hashes2 = hashes

(***************************************************************************)
(* One reference, one clip of it.  The store holds a single song whose     *)
(* hash list is in ascending anchor time, as generate_hashes emits it; the *)
(* query is a sub-list of it with every anchor time shifted by the same d. *)
(***************************************************************************)
HashTokens == {"h1", "h2"}
AnchorTimes == {0, 1}
HashRecords == HashTokens \X AnchorTimes \X {None}

\* the hash lists of at most n records, in ascending anchor time
AscendingLists(n) ==
    {l \in SeqsUpTo(HashRecords, n) : \A i \in 1..(Len(l) - 1) : l[i][2] <= l[i + 1][2]}

\* the hash lists of n records at the anchor times 0, 1, ..., n - 1
AdvancingLists(n) ==
    {[i \in 1..n |-> <<tok[i], i - 1, None>>] : tok \in [1..n -> HashTokens]}

\* The references: MIN_MATCHES to MIN_MATCHES + MaxExtra hashes, crowded
\* on two anchor times or spread one to an anchor time.
References ==
    {l \in AscendingLists(MIN_MATCHES + MaxExtra) : Len(l) >= MIN_MATCHES}
        \cup UNION {AdvancingLists(n) : n \in MIN_MATCHES..(MIN_MATCHES + MaxExtra)}

\* the sub-list of l at the positions keep
RECURSIVE SubList(_, _, _)
SubList(l, keep, i) ==
    IF i > Len(l) THEN <<>>
    ELSE (IF i \in keep THEN <<l[i]>> ELSE <<>>) \o SubList(l, keep, i + 1)

\* each (h, t) becomes (h, t - d)
Shifted(l, d) == [i \in 1..Len(l) |-> <<l[i][1], l[i][2] - d, l[i][3]>>]

InitStore ==
    /\ db = EmptyDb
    /\ inserted = <<>>
    /\ call = NoCall
    /\ CallersIdle
    /\ HasherUnused

\* db.insert_song(name, hashes) with no other writer: the whole call
InsertSong(name, hs) ==
    /\ db' = InsertSongDb(db, name, hs)
    /\ inserted' = Append(inserted, [name |-> name, hashes |-> hs,
                                     song_id |-> LastRowId(db')])
    /\ call' = [op |-> "insert_song", name |-> name, hashes |-> hs,
                ret |-> LastRowId(db')]
    /\ UNCHANGED <<hvars, cvars>>

\* find_matches(query_hashes, db)
FindMatches(query_hashes) ==
    /\ call' = [op |-> "find_matches", query_hashes |-> query_hashes,
                ret |-> find_matches(query_hashes, db)]
    /\ UNCHANGED <<db, inserted, hvars, cvars>>

InsertReference ==
    /\ inserted = <<>>
    /\ \E r \in References : InsertSong("ref", r)

IdentifyClip ==
    /\ Len(inserted) = 1
    /\ call.op = "insert_song"
    /\ \E keep \in SUBSET (1..Len(inserted[1].hashes)), d \in (-MaxShift)..MaxShift :
          /\ Cardinality(keep) >= MIN_MATCHES
          /\ FindMatches(Shifted(SubList(inserted[1].hashes, keep, 1), d))

NextMono == InsertReference \/ IdentifyClip

SpecMono == InitStore /\ [][NextMono]_vars

\* C1: against a store that holds exactly one song r, inserted with hash
\* list R, a query that is a sub-list S of R with |S| >= MIN_MATCHES, every
\* anchor time shifted by the same d, is matched: find_matches returns a
\* MatchResult naming r with aligned_matches >= |S| >= MIN_MATCHES.
C1_MatcherMonotone ==
    call.op = "find_matches" =>
        /\ call.ret # NoMatch
        /\ call.ret.song_id = inserted[1].song_id
        /\ call.ret.aligned_matches >= Len(call.query_hashes)
        /\ call.ret.aligned_matches >= MIN_MATCHES

\* A proper sub-list, shifted by d # 0, of a reference that repeats a hash.
C1_Witness ==
    /\ call.op = "find_matches"
    /\ Len(call.query_hashes) < Len(inserted[1].hashes)
    /\ \E i \in 1..Len(call.query_hashes) :
          \A j \in 1..Len(inserted[1].hashes) :
              inserted[1].hashes[j][1] = call.query_hashes[i][1]
                  => inserted[1].hashes[j][2] # call.query_hashes[i][2]
    /\ \E i, j \in 1..Len(inserted[1].hashes) :
          i # j /\ inserted[1].hashes[i][1] = inserted[1].hashes[j][1]
    /\ call.ret # NoMatch
    /\ call.ret.aligned_matches > Len(call.query_hashes)

(***************************************************************************)
(* A catalog and a query.  The songs of the catalog are added one after    *)
(* the other, each with any hash list of at most MaxHashes records; any    *)
(* query of at most MaxQuery records is then identified.                   *)
(***************************************************************************)
Catalog == <<"songA", "songB">>

\* A query reads the store and leaves it as it was: a run ends with it.
AddSong ==
    /\ call.op # "find_matches"
    /\ Len(inserted) < Len(Catalog)
    /\ \E hs \in AscendingLists(MaxHashes) : InsertSong(Catalog[Len(inserted) + 1], hs)

Identify ==
    /\ call.op # "find_matches"
    /\ \E q \in AscendingLists(MaxQuery) : FindMatches(q)

NextMatch == AddSong \/ Identify

SpecMatch == InitStore /\ [][NextMatch]_vars

\* The probe hits of query list q: a (query position, fingerprint row) pair
\* wherever the hashes agree.
Hits(q) ==
    {p \in (1..Len(q)) \X (1..Len(db.fingerprints)) :
        db.fingerprints[p[2]][1] = q[p[1]][1]}

\* The (song_id, D) key of a hit, D = t_db - t_query.
KeyOf(q, p) == <<db.fingerprints[p[2]][2], db.fingerprints[p[2]][3] - q[p[1]][2]>>

Votes(q, key) == Cardinality({p \in Hits(q) : KeyOf(q, p) = key})

Keys(q) == {KeyOf(q, p) : p \in Hits(q)}

MaxVotes(q) == MaxOf({Votes(q, key) : key \in Keys(q)})

\* C2: find_matches returns None iff the query is empty, there are no hits, or
\* the largest vote count is below MIN_MATCHES; otherwise its aligned_matches
\* is the largest vote count over all (song_id, D) keys and its song_id is
\* the song of a key with that many votes.
C2_DecisionRule ==
    call.op = "find_matches" =>
        LET q == call.query_hashes
            most == MaxVotes(q)
        IN  /\ call.ret = NoMatch
                  <=> (q = <<>> \/ Hits(q) = {} \/ most < MIN_MATCHES)
            /\ call.ret # NoMatch =>
                  /\ call.ret.aligned_matches = most
                  /\ \E key \in Keys(q) :
                        key[1] = call.ret.song_id /\ Votes(q, key) = most
                  /\ call.ret.song_name = get_song(db, call.ret.song_id)

\* A match against a catalog of two songs, both of them hit, one hit at
\* two different offsets.
C2_Witness ==
    /\ call.op = "find_matches"
    /\ call.ret # NoMatch
    /\ \E p, r \in Hits(call.query_hashes) :
          KeyOf(call.query_hashes, p)[1] # KeyOf(call.query_hashes, r)[1]
    /\ \E p, r \in Hits(call.query_hashes) :
          /\ KeyOf(call.query_hashes, p)[1] = KeyOf(call.query_hashes, r)[1]
          /\ KeyOf(call.query_hashes, p)[2] # KeyOf(call.query_hashes, r)[2]

\* C3: every MatchResult find_matches returns has its confidence,
\* best_count / |query_hashes|, in [0, 1].
C3_ConfidenceInUnitInterval ==
    (call.op = "find_matches" /\ call.ret # NoMatch) =>
        /\ 0 <= call.ret.confidence.num
        /\ call.ret.confidence.num <= call.ret.confidence.den

\* How many triples with song_id = id the lookup of each record of hs
\* returns, one count per pass of query's loop.
OwnPerLookup(hs, id) ==
    [i \in 1..Len(hs) |-> Len(SelectSeq(QueryOne(db, hs[i]), LAMBDA t : t[1] = id))]

\* The sum of counts[i] over the positions i..Len(hs) of hs that hold h.
RECURSIVE SumWhere(_, _, _, _)
SumWhere(counts, hs, h, i) ==
    IF i > Len(hs) THEN 0
    ELSE (IF hs[i][1] = h THEN counts[i] ELSE 0) + SumWhere(counts, hs, h, i + 1)

\* The sum of counts[i..].
RECURSIVE SumFrom(_, _)
SumFrom(counts, i) ==
    IF i > Len(counts) THEN 0 ELSE counts[i] + SumFrom(counts, i + 1)

\* The triples of query(hs) with song_id = id.
OwnTriplesOfQuery(hs, id) == SelectSeq(query(db, hs), LAMBDA t : t[1] = id)

\* C5 as amended: after id = insert_song(name, hs), get_song(id) = name and
\* every lookup of a hash h of hs returns exactly as many triples with
\* song_id = id as h occurs in hs, k of them; query(hs) looks h up once per
\* occurrence, so k * k of its triples with song_id = id come from h.  It
\* holds of the song just inserted and of every song inserted before it.
C5_RoundTrip ==
    call.op = "insert_song" =>
        \A n \in 1..Len(inserted) :
            LET hs == inserted[n].hashes
                id == inserted[n].song_id
                column == [i \in 1..Len(hs) |-> hs[i][1]]
                counts == OwnPerLookup(hs, id)
            IN  /\ get_song(db, id) = inserted[n].name
                /\ \A i \in 1..Len(hs) : counts[i] = Occurrences(column, hs[i][1])
                /\ \A h \in Range(column) :
                      SumWhere(counts, hs, h, 1)
                          = Occurrences(column, h) * Occurrences(column, h)
                /\ Len(OwnTriplesOfQuery(hs, id)) = SumFrom(counts, 1)

\* A song just inserted whose hash list holds one hash twice, into a store
\* where another song holds that hash too.
C5_Witness ==
    /\ call.op = "insert_song"
    /\ Len(inserted) = 2
    /\ Len(inserted[2].hashes) = 2
    /\ inserted[2].hashes[1][1] = inserted[2].hashes[2][1]
    /\ \E i \in 1..Len(inserted[1].hashes) :
          inserted[1].hashes[i][1] = inserted[2].hashes[1][1]
    /\ Len(OwnTriplesOfQuery(inserted[2].hashes, inserted[2].song_id)) = 4

\* C5 as stated: the triples with song_id = id that query(hs) gets from
\* looking up h are exactly as many as h occurs in hs.
C5_MultiplicityIsOccurrences ==
    call.op = "insert_song" =>
        \A n \in 1..Len(inserted) :
            LET hs == inserted[n].hashes
                id == inserted[n].song_id
                column == [i \in 1..Len(hs) |-> hs[i][1]]
                counts == OwnPerLookup(hs, id)
            IN  /\ get_song(db, id) = inserted[n].name
                /\ \A h \in Range(column) :
                      /\ SumWhere(counts, hs, h, 1) >= 1
                      /\ SumWhere(counts, hs, h, 1) = Occurrences(column, h)

(***************************************************************************)
(* The shared store.  Each caller runs insert_song on a connection of its  *)
(* own, statement by statement; a call may raise after its song row was    *)
(* written; readers look at the store at any moment.  SQLite lets one      *)
(* connection write at a time: the first INSERT of a transaction takes the *)
(* write lock, COMMIT and ROLLBACK release it, and what a transaction      *)
(* wrote is in no other connection's view before its COMMIT.               *)
(***************************************************************************)

\* add_song names a song after its file (Path(filepath).stem); each caller
\* ingests a file of its own, as often as it likes.
FileOf == [p \in Callers |-> IF p = "c1" THEN "a" ELSE "b"]

\* The hashes of a caller's file: its own hash value at anchor times
\* 0, 1, ..., so that a stored row tells whose call supplied it.
HashOf == [p \in Callers |-> IF p = "c1" THEN "h1" ELSE "h2"]

FileHashes(p, n) == [i \in 1..n |-> <<HashOf[p], i - 1, None>>]

StoreLists(p) == {FileHashes(p, n) : n \in 0..MaxRows}

SongIdFromCommitted(committed, working) == LastRowId(committed)

\* song_id = cursor.lastrowid: the rowid of the INSERT this connection made
SongIdOf(committed, working) == LastRowId(working)

RollbackKeepsWork(committed, working) == working

RollbackKeepsSequence(committed, working) ==
    [committed EXCEPT !.sqlite_sequence = working.sqlite_sequence]

\* The with block's exit on an exception rolls the transaction back: the
\* database is what was committed before.
AfterRollback(committed, working) == committed

CommitOnlyWithRows(committed, working) ==
    IF working.fingerprints = committed.fingerprints THEN committed ELSE working

\* conn.commit(): the database is what the transaction made of it.
AfterCommit(committed, working) == working

\* What a reader's own connection sees: the committed database.
ReadView(committed, writers) == committed

\* A caller enters insert_song(name, hashes); its connection waits for the
\* write lock if another transaction holds it.
CallInsertSong(p) ==
    /\ pc[p] = "idle"
    /\ ncalls < MaxCalls
    /\ \E hs \in StoreLists(p) :
          local' = [local EXCEPT ![p] =
                       [name |-> FileOf[p], hashes |-> hs, song_id |-> 0,
                        fingerprint_data |-> <<>>, done |-> 0, no |-> ncalls + 1]]
    /\ ncalls' = ncalls + 1
    /\ pc' = [pc EXCEPT ![p] = "called"]
    /\ UNCHANGED <<db, inserted, call, conn, lock, origin, rolled_back, hvars>>

\* with sqlite3.connect(...) as conn: cursor = conn.execute("INSERT INTO
\* songs ..."); song_id = cursor.lastrowid.  The INSERT opens the
\* transaction and takes the write lock.
InsertSongStatement(p) ==
    /\ pc[p] = "called"
    /\ lock = "free"
    /\ LET working == InsertSongRow(db, local[p].name)
       IN  /\ conn' = [conn EXCEPT ![p] =
                 [db |-> working,
                  origin |-> [origin EXCEPT !.songs = Append(@, local[p].no)]]]
           /\ local' = [local EXCEPT ![p].song_id = SongIdOf(db, working)]
    /\ lock' = p
    /\ pc' = [pc EXCEPT ![p] = "song_inserted"]
    /\ UNCHANGED <<db, inserted, call, ncalls, origin, rolled_back, hvars>>

\* The INSERT of a call that finds another connection holding the write
\* lock past the busy timeout raises "database is locked"; nothing was
\* written.
DatabaseLocked(p) ==
    /\ pc[p] = "called"
    /\ lock \notin {"free", p}
    /\ call' = [op |-> "insert_song raised", name |-> local[p].name,
                at |-> pc[p], written |-> 0]
    /\ pc' = [pc EXCEPT ![p] = "idle"]
    /\ local' = [local EXCEPT ![p] = NoLocals]
    /\ UNCHANGED <<db, inserted, conn, lock, ncalls, origin, rolled_back, hvars>>

\* fingerprint_data = [(h, song_id, t) for h, t, _ in hashes]
BuildFingerprintData(p) ==
    /\ pc[p] = "song_inserted"
    /\ local' = [local EXCEPT ![p].fingerprint_data =
                    FingerprintData(local[p].hashes, local[p].song_id)]
    /\ pc' = [pc EXCEPT ![p] = "data_built"]
    /\ UNCHANGED <<db, inserted, call, conn, lock, ncalls, origin, rolled_back, hvars>>

\* conn.executemany(...): the next row
ExecuteManyRow(p) ==
    /\ pc[p] = "data_built"
    /\ local[p].done < Len(local[p].fingerprint_data)
    /\ conn' = [conn EXCEPT
          ![p].db = InsertFingerprintRow(@, local[p].fingerprint_data[local[p].done + 1]),
          ![p].origin.fingerprints = Append(@, local[p].no)]
    /\ local' = [local EXCEPT ![p].done = @ + 1]
    /\ UNCHANGED <<db, inserted, call, pc, lock, ncalls, origin, rolled_back, hvars>>

\* conn.commit(); return song_id
CommitAndReturn(p) ==
    /\ pc[p] = "data_built"
    /\ local[p].done = Len(local[p].fingerprint_data)
    /\ db' = AfterCommit(db, conn[p].db)
    /\ origin' = conn[p].origin
    /\ inserted' = Append(inserted, [name |-> local[p].name, hashes |-> local[p].hashes,
                                     song_id |-> local[p].song_id, no |-> local[p].no])
    /\ call' = [op |-> "insert_song", name |-> local[p].name,
                hashes |-> local[p].hashes, ret |-> local[p].song_id]
    /\ lock' = "free"
    /\ pc' = [pc EXCEPT ![p] = "idle"]
    /\ local' = [local EXCEPT ![p] = NoLocals]
    /\ conn' = [conn EXCEPT ![p] = NoTransaction]
    /\ UNCHANGED <<ncalls, rolled_back, hvars>>

\* An exception after the song row was written (a malformed hash tuple, a
\* row the table refuses, a full disk): the with block rolls back and the
\* exception leaves insert_song.
RaiseAndRollback(p) ==
    /\ pc[p] \in {"song_inserted", "data_built"}
    /\ db' = AfterRollback(db, conn[p].db)
    /\ call' = [op |-> "insert_song raised", name |-> local[p].name,
                at |-> pc[p], written |-> local[p].done]
    /\ lock' = "free"
    /\ pc' = [pc EXCEPT ![p] = "idle"]
    /\ local' = [local EXCEPT ![p] = NoLocals]
    /\ conn' = [conn EXCEPT ![p] = NoTransaction]
    /\ rolled_back' = rolled_back \cup {local[p].no}
    /\ UNCHANGED <<inserted, ncalls, origin, hvars>>

\* The readers, each on a connection of its own.
ReadSongCount ==
    /\ call' = [op |-> "song_count", ret |-> song_count(ReadView(db, conn))]
    /\ UNCHANGED <<db, inserted, cvars, hvars>>

ReadFingerprintCount ==
    /\ call' = [op |-> "fingerprint_count", ret |-> fingerprint_count(ReadView(db, conn))]
    /\ UNCHANGED <<db, inserted, cvars, hvars>>

ReadListSongs ==
    /\ call' = [op |-> "list_songs", ret |-> list_songs(ReadView(db, conn))]
    /\ UNCHANGED <<db, inserted, cvars, hvars>>

ReadGetSong ==
    /\ \E id \in 1..MaxCalls :
          call' = [op |-> "get_song", song_id |-> id,
                   ret |-> get_song(ReadView(db, conn), id)]
    /\ UNCHANGED <<db, inserted, cvars, hvars>>

ReadQuery ==
    /\ \E h \in HashTokens :
          call' = [op |-> "query", hashes |-> <<<<h, 0, None>>>>,
                   ret |-> query(ReadView(db, conn), <<<<h, 0, None>>>>)]
    /\ UNCHANGED <<db, inserted, cvars, hvars>>

NextStore ==
    \/ \E p \in Callers :
          \/ CallInsertSong(p)
          \/ InsertSongStatement(p)
          \/ DatabaseLocked(p)
          \/ BuildFingerprintData(p)
          \/ ExecuteManyRow(p)
          \/ CommitAndReturn(p)
          \/ RaiseAndRollback(p)
    \/ ReadSongCount
    \/ ReadFingerprintCount
    \/ ReadListSongs
    \/ ReadGetSong
    \/ ReadQuery

SpecStore == InitStore /\ [][NextStore]_vars

\* The rows the calls that returned were asked to store, in commit order.
SongsOf(calls) == [i \in 1..Len(calls) |-> <<calls[i].song_id, calls[i].name>>]

RECURSIVE FingerprintsOf(_)
FingerprintsOf(calls) ==
    IF calls = <<>> THEN <<>>
    ELSE FingerprintData(Head(calls).hashes, Head(calls).song_id)
             \o FingerprintsOf(Tail(calls))

\* What any reader can see holds each returned call's song with all of its
\* fingerprint rows, and not one row of a call in flight or of a call that
\* raised.
CompleteOrAbsent ==
    LET seen == ReadView(db, conn)
    IN  /\ seen.songs = SongsOf(inserted)
        /\ seen.fingerprints = FingerprintsOf(inserted)

\* The step in which caller p's insert_song raises after its song row was
\* written.
RaisesAfterSongRow(p) ==
    /\ pc[p] \in {"song_inserted", "data_built"}
    /\ pc'[p] = "idle"
    /\ inserted' = inserted

\* C4: insert_song is atomic.  In every state a reader can observe, each
\* song is present with all of its fingerprint rows or entirely absent; and
\* a call that fails after its song row was written leaves the songs and
\* fingerprints relations exactly as they were.
C4_InsertSongAtomic ==
    /\ []CompleteOrAbsent
    /\ [][\A p \in Callers :
              RaisesAfterSongRow(p) =>
                  /\ db'.songs = db.songs
                  /\ db'.fingerprints = db.fingerprints
                  /\ ReadView(db', conn') = ReadView(db, conn)]_vars

\* A call raised in the middle of its executemany, one row written, one to
\* go, a song with fingerprints already in the store.
C4_Witness ==
    /\ call.op = "insert_song raised"
    /\ call.at = "data_built"
    /\ call.written >= 1
    /\ \E i \in 1..Len(inserted) :
          /\ Len(inserted[i].hashes) >= 2
          /\ get_song(db, inserted[i].song_id) = inserted[i].name
    /\ fingerprint_count(db) >= 2

\* C8: under every interleaving of concurrent insert_song calls, every
\* committed fingerprint row carries the song_id of the song row that the
\* same call wrote, the hash of a row is the hash of the file its song is
\* named after, and each call returned the id of its own song row.
C8_OwnSongId ==
    /\ \A j \in 1..Len(db.fingerprints) :
          \E i \in 1..Len(db.songs) :
              /\ origin.songs[i] = origin.fingerprints[j]
              /\ db.songs[i][1] = db.fingerprints[j][2]
              /\ \E p \in Callers :
                    /\ db.songs[i][2] = FileOf[p]
                    /\ db.fingerprints[j][1] = HashOf[p]
    /\ \A k \in 1..Len(inserted) :
          \E i \in 1..Len(db.songs) :
              /\ origin.songs[i] = inserted[k].no
              /\ db.songs[i] = <<inserted[k].song_id, inserted[k].name>>

\* Two calls that overlapped, each with fingerprints: the one that was
\* entered second committed first.
C8_Witness ==
    /\ Len(inserted) >= 2
    /\ inserted[1].no > inserted[2].no
    /\ inserted[1].hashes # <<>>
    /\ inserted[2].hashes # <<>>
    /\ inserted[1].name # inserted[2].name

\* C9: after any sequence of insert_song calls on an initially empty store,
\* some of which fail and roll back, the song ids present are exactly 1..n,
\* n the number of calls that returned; each of them returned an id greater
\* than every id returned before; list_songs returns the songs in ascending
\* id order.
C9_DenseMonotoneIds ==
    /\ SongIds(db) = 1..Len(inserted)
    /\ song_count(db) = Len(inserted)
    /\ \A i, j \in 1..Len(inserted) :
          i < j => inserted[i].song_id < inserted[j].song_id
    /\ LET listed == list_songs(ReadView(db, conn))
       IN  /\ IsPermutationOf(listed, db.songs)
           /\ \A i \in 1..(Len(listed) - 1) : listed[i][1] < listed[i + 1][1]

\* An insert that returned after an earlier call was rolled back with its
\* song row written.
C9_Witness ==
    /\ call.op = "insert_song"
    /\ \E n \in rolled_back : n < inserted[Len(inserted)].no
    /\ get_song(db, call.ret) = call.name

\* The step in which an insert_song call with an empty hash list returns.
EmptyIngestReturns ==
    /\ Len(inserted') = Len(inserted) + 1
    /\ inserted'[Len(inserted')].hashes = <<>>

\* C10 as amended: insert_song(name, []) adds one song row, under an id the
\* store did not hold, and no fingerprint row, every time it is performed
\* (a second empty ingest of the same name adds a second song row);
\* find_matches on an empty hash list returns None.
C10_EmptyIngest ==
    /\ [][EmptyIngestReturns =>
              /\ db'.songs = Append(db.songs, <<call'.ret, call'.name>>)
              /\ call'.ret \notin SongIds(db)
              /\ db'.fingerprints = db.fingerprints
              /\ song_count(db') = song_count(db) + 1
              /\ fingerprint_count(db') = fingerprint_count(db)]_vars
    /\ [](find_matches(<<>>, db) = NoMatch)

\* The same empty ingest, performed twice.
C10_Witness ==
    /\ Len(inserted) >= 2
    /\ inserted[1].name = inserted[2].name
    /\ inserted[1].hashes = <<>>
    /\ inserted[2].hashes = <<>>
    /\ song_count(db) = 2
    /\ fingerprint_count(db) = 0

\* C10 as stated: the empty ingest is idempotent, a second empty ingest of
\* the same name leaves songs, fingerprints and both counts as they were.
C10_Idempotent ==
    [][(/\ EmptyIngestReturns
        /\ \E i \in 1..Len(inserted) :
              /\ inserted[i].name = inserted'[Len(inserted')].name
              /\ inserted[i].hashes = <<>>)
          => /\ db'.songs = db.songs
             /\ db'.fingerprints = db.fingerprints
             /\ song_count(db') = song_count(db)
             /\ fingerprint_count(db') = fingerprint_count(db)]_vars

====
